---- MODULE Spec2Model ----
(***************************************************************************)
(* The real-time session engine of the interview coach (App component):    *)
(* session lifecycle, inbound message handling (audio playback scheduling, *)
(* interruption, transcript aggregation, tool calls) and microphone        *)
(* capture.  Times are whole ticks of the output AudioContext clock.       *)
(***************************************************************************)
EXTENDS Integers, Sequences, FiniteSets, TLC

\* ------------------------------------------------------------------ bounds
MaxClock == 2          \* the clock stops advancing here
MaxDur == 1            \* longest decoded chunk, in ticks
MaxAudio == 2          \* audio-bearing messages received in one behaviour
MaxMsgs == 2           \* inbound messages received in one behaviour
MaxCalls == 2          \* function calls received in one behaviour
MaxBlocks == 2         \* sendRealtimeInput calls (microphone blocks, frames) in one behaviour
MaxSessions == 2       \* startSession invocations in one behaviour

\* ------------------------------------------------------------------ state
VARIABLES
    isActive,        \* useState isActive
    isSpeaking,      \* useState isSpeaking
    error,           \* useState error
    feedbacks,       \* useState feedbacks (newest first)
    transcriptions,  \* useState transcriptions (the transcript log)
    nextStartTime,   \* nextStartTimeRef.current
    sources,         \* sourcesRef.current: ids of the nodes in the set
    sessionRef,      \* sessionRef.current: 0 is null, else a session number
    buf,             \* transcriptionBufferRef.current
    sess,            \* one record per startSession invocation
    clock,           \* outputAudioContextRef.current.currentTime
    nodes,           \* every AudioBufferSourceNode created, by id
    video,           \* VideoPreview: one record per run of its effect with isActive true
    pending,         \* onmessage invocations suspended at the await
    toolResponses,   \* sendToolResponse calls made, in order
    realtimeInput,   \* sendRealtimeInput calls made, in order
    h                \* history: what arrived, for stating the properties

vars == <<isActive, isSpeaking, error, feedbacks, transcriptions, nextStartTime,
          sources, sessionRef, buf, sess, clock, nodes, video, pending, toolResponses,
          realtimeInput, h>>

Max(a, b) == IF a >= b THEN a ELSE b
Min(a, b) == IF a <= b THEN a ELSE b

NoError == "null"
CommError == "Communication lost. Please try restarting the session."
DeviceError == "Could not access microphone or camera. Please check permissions."

Undefined == "undefined"
EmptyBuf == [user |-> <<>>, model |-> <<>>]

\* ------------------------------------------------------------------ inbound messages
\* A LiveServerMessage, reduced to the fields onmessage reads.  audio is the
\* duration of the chunk in parts[0].inlineData (0: no audio); inT and outT
\* are the transcription texts (<<>>: none or empty); calls are the function
\* calls of toolCall (<<>>: no toolCall), still without the ids the server gives.
Fragments == {<<>>, <<"a">>, <<"b">>}
\* the durations decodeAudioData can give the buffer of a chunk
DecodedDurations == 1..MaxDur
ToolNames == {"provideFeedback", "other"}
\* the args of a call: complete, or with one required field missing
FullArgs == [category |-> "Pace", message |-> "Slow down", sentiment |-> "improvement"]
ArgValues == {FullArgs, [FullArgs EXCEPT !.category = Undefined],
              [FullArgs EXCEPT !.message = Undefined],
              [FullArgs EXCEPT !.sentiment = Undefined]}
FunctionCalls == [name : ToolNames, args : ArgValues]

Msg(a, i, u, m, t, c) ==
    [audio |-> a, interrupted |-> i, inT |-> u, outT |-> m, turnComplete |-> t, calls |-> c]

\* serverContent messages about playback only
PlaybackMsgs ==
    { Msg(a, i, <<>>, <<>>, FALSE, <<>>) : a \in {0} \cup DecodedDurations, i \in BOOLEAN }
        \ { Msg(0, FALSE, <<>>, <<>>, FALSE, <<>>) }

\* serverContent messages about the transcript, with or without audio: at
\* most one transcription each, and possibly the turn-complete flag
TextMsgs ==
    { Msg(a, FALSE, u, m, t, <<>>) : a \in 0..1, u \in Fragments, m \in Fragments, t \in BOOLEAN }
        \ ({ Msg(0, FALSE, <<>>, <<>>, FALSE, <<>>) } \cup
           { Msg(a, FALSE, u, m, t, <<>>) : a \in 0..1, u \in Fragments \ {<<>>},
                                           m \in Fragments \ {<<>>}, t \in BOOLEAN })

\* toolCall messages of one or two function calls, with or without audio
ToolMsgs ==
    { Msg(a, FALSE, <<>>, <<>>, FALSE, c) :
        a \in 0..1, c \in { <<f>> : f \in FunctionCalls } \cup
                          { <<f, g>> : f \in FunctionCalls, g \in {[name |-> "provideFeedback", args |-> FullArgs],
                                                                   [name |-> "other", args |-> FullArgs]} } }

AllMsgs == PlaybackMsgs \cup TextMsgs \cup ToolMsgs

\* the server numbers the function calls it sends
WithIds(m, n) ==
    [m EXCEPT !.calls = [j \in 1..Len(m.calls) |->
        [id |-> n + j, name |-> m.calls[j].name, args |-> m.calls[j].args]]]

\* ------------------------------------------------------------------ initial state
NoMsg == Msg(0, FALSE, <<>>, <<>>, FALSE, <<>>)

\* The state after the first render.  track: whether the history of
\* cancellations and of the message behind each node is kept in h.
InitWith(track) ==
    /\ isActive = FALSE
    /\ isSpeaking = FALSE
    /\ error = NoError
    /\ feedbacks = <<>>
    /\ transcriptions = <<>>
    /\ nextStartTime = 0
    /\ sources = {}
    /\ sessionRef = 0
    /\ buf = EmptyBuf
    /\ sess = <<>>
    /\ clock = 0
    /\ nodes = <<>>
    /\ video = <<>>
    /\ pending = {}
    /\ toolResponses = <<>>
    /\ realtimeInput = <<>>
    /\ h = [last |-> "init", msg |-> NoMsg, k |-> 0,
            nrecv |-> 0, naudio |-> 0, ncalls |-> 0,
            arrMax |-> 0, epoch |-> 0, failed |-> 0,
            arrBuf |-> EmptyBuf, arrLog |-> <<>>, calls |-> <<>>,
            track |-> track, nodeMsg |-> <<>>, cancelAt |-> 0, stale |-> {}]

Init == InitWith(FALSE)
InitTracked == InitWith(TRUE)

\* a history value, kept only when tracking
Track(new, old) == IF h.track THEN new ELSE old

\* ------------------------------------------------------------------ playback nodes
\* An AudioBufferSourceNode after start(when): it plays from began, which is
\* when or, if that is already past, the clock value of the start call.
\* state: "started", "stopped" (stop() called, ended event not yet
\* delivered), "ended" (onended has run).  arr and epoch are history.
NewNode(when, dur, now, arr, epoch) ==
    [when |-> when, dur |-> dur, began |-> Max(when, now), state |-> "started",
     stopAt |-> -1, arr |-> arr, epoch |-> epoch]

\* s.stop() for every node of a set
StopNodes(ns, ids, now) ==
    [i \in 1..Len(ns) |->
        IF i \in ids /\ ns[i].state = "started"
        THEN [ns[i] EXCEPT !.state = "stopped", !.stopAt = now]
        ELSE ns[i]]

\* the interval in which a node is audible: [PlayFrom, PlayTo)
PlayFrom(n) == n.began
PlayTo(n) == IF n.stopAt >= 0 THEN Max(n.began, Min(n.began + n.dur, n.stopAt))
             ELSE n.began + n.dur

\* ------------------------------------------------------------------ onmessage, as state transformers
\* The part of the state onmessage reads and writes, as one record.
St ==
    [sources |-> sources, next |-> nextStartTime, speaking |-> isSpeaking,
     buf |-> buf, log |-> transcriptions, fbs |-> feedbacks,
     resp |-> toolResponses, nodes |-> nodes]

Commit(s) ==
    /\ sources' = s.sources
    /\ nextStartTime' = s.next
    /\ isSpeaking' = s.speaking
    /\ buf' = s.buf
    /\ transcriptions' = s.log
    /\ feedbacks' = s.fbs
    /\ toolResponses' = s.resp
    /\ nodes' = s.nodes

\* nextStartTimeRef.current = Math.max(nextStartTimeRef.current, ctx.currentTime)
ArrivalStartTime_NoMax(next, now) == next
ArrivalStartTime(next, now) == Max(next, now)

\* lines 179-181: what runs before the await
AudioArrive(s, now) ==
    [s EXCEPT !.speaking = TRUE, !.next = ArrivalStartTime(s.next, now)]

\* lines 184-193: what runs once decodeAudioData has resolved with a buffer
\* of duration dur
AudioDecoded(s, dur, now, arr, epoch) ==
    [s EXCEPT !.nodes = Append(s.nodes, NewNode(s.next, dur, now, arr, epoch)),
              !.next = s.next + dur,
              !.sources = s.sources \cup {Len(s.nodes) + 1}]

\* lines 197-202
HandleInterrupted_KeepStartTime(s, m, now) ==
    IF m.interrupted
    THEN [s EXCEPT !.nodes = StopNodes(s.nodes, s.sources, now),
                   !.sources = {}, !.speaking = FALSE]
    ELSE s
HandleInterrupted(s, m, now) ==
    IF m.interrupted
    THEN [s EXCEPT !.nodes = StopNodes(s.nodes, s.sources, now),
                   !.sources = {}, !.next = 0, !.speaking = FALSE]
    ELSE s

\* lines 205-210: text is appended; appending an empty text changes nothing
HandleTranscriptions(s, m) ==
    [s EXCEPT !.buf = [user |-> s.buf.user \o m.inT, model |-> s.buf.model \o m.outT]]

\* lines 215-219: the entries setTranscriptions appends
FlushEntries_ModelFirst(uText, mText, now) ==
    (IF mText # <<>> THEN <<[role |-> "model", text |-> mText, timestamp |-> now]>> ELSE <<>>)
    \o (IF uText # <<>> THEN <<[role |-> "user", text |-> uText, timestamp |-> now]>> ELSE <<>>)
FlushEntries(uText, mText, now) ==
    (IF uText # <<>> THEN <<[role |-> "user", text |-> uText, timestamp |-> now]>> ELSE <<>>)
    \o (IF mText # <<>> THEN <<[role |-> "model", text |-> mText, timestamp |-> now]>> ELSE <<>>)

\* lines 211-222
HandleTurnComplete(s, m, now) ==
    IF m.turnComplete
    THEN [s EXCEPT !.log = IF s.buf.user # <<>> \/ s.buf.model # <<>>
                           THEN s.log \o FlushEntries(s.buf.user, s.buf.model, now)
                           ELSE s.log,
                   !.buf = EmptyBuf]
    ELSE s

\* lines 227-243, for one function call fc received on session k.  The id is
\* Math.random() in the source; here it numbers the feedbacks.
HandleFunctionCall(s, fc, k, now) ==
    IF fc.name = "provideFeedback"
    THEN [s EXCEPT
            !.fbs = <<[id |-> Len(s.fbs) + 1, category |-> fc.args.category,
                       message |-> fc.args.message, sentiment |-> fc.args.sentiment,
                       timestamp |-> now]>> \o s.fbs,
            !.resp = Append(s.resp, [k |-> k, id |-> fc.id, name |-> fc.name,
                                     result |-> "feedback_received"])]
    ELSE s

\* lines 225-245: the loop over msg.toolCall.functionCalls
RECURSIVE HandleToolCall(_, _, _, _)
HandleToolCall(s, calls, k, now) ==
    IF calls = <<>> THEN s
    ELSE HandleToolCall(HandleFunctionCall(s, Head(calls), k, now), Tail(calls), k, now)

\* lines 196-245: everything after the audio block
RestOfMessage(s, m, k, now) ==
    HandleToolCall(
        HandleTurnComplete(
            HandleTranscriptions(HandleInterrupted(s, m, now), m), m, now),
        m.calls, k, now)

\* ------------------------------------------------------------------ history
Did(op, m, k) == [h EXCEPT !.last = op, !.msg = IF op = "handled" THEN m ELSE NoMsg, !.k = k]

\* What handling the messages one at a time, in arrival order, makes of the
\* transcript: kept beside the program's own buffer and log.
ArrivedEntries(b) ==
    (IF b.user # <<>> THEN <<[role |-> "user", text |-> b.user]>> ELSE <<>>)
    \o (IF b.model # <<>> THEN <<[role |-> "model", text |-> b.model]>> ELSE <<>>)

Arrived(hh, m) ==
    LET b == [user |-> hh.arrBuf.user \o m.inT, model |-> hh.arrBuf.model \o m.outT]
    IN [hh EXCEPT
          !.nrecv = @ + 1,
          !.naudio = IF m.audio > 0 THEN @ + 1 ELSE @,
          !.ncalls = @ + Len(m.calls),
          !.calls = @ \o m.calls,
          !.arrBuf = IF m.turnComplete THEN EmptyBuf ELSE b,
          !.arrLog = IF m.turnComplete THEN @ \o ArrivedEntries(b) ELSE @]

\* ------------------------------------------------------------------ video preview
\* One record per run of the effect of VideoPreview (lines 13-58) that
\* called startStream.  camera: the getUserMedia of line 19 ("pending",
\* "granted", "denied"); stream, interval: the closure variables of lines
\* 14-15 hold a live stream, a running interval; cleaned: the cleanup of
\* lines 50-57 has run.
NewEffect ==
    [camera |-> "pending", stream |-> FALSE, interval |-> FALSE, cleaned |-> FALSE]

\* lines 50-57: the cleanup of the latest run stops and clears what the
\* closure variables hold at that moment
EffectCleanup(v) ==
    [e \in 1..Len(v) |->
        IF e = Len(v) /\ ~v[e].cleaned
            THEN [v[e] EXCEPT !.stream = FALSE, !.interval = FALSE, !.cleaned = TRUE]
            ELSE v[e]]

\* line 58: isActive (and with it handleFrame, line 273) changed from was to
\* now: the cleanup of the previous run, then the effect again, which calls
\* startStream only if isActive (line 46)
VideoAfter(v, was, now) ==
    IF was = now THEN v
    ELSE IF now THEN Append(EffectCleanup(v), NewEffect)
    ELSE EffectCleanup(v)

\* ------------------------------------------------------------------ session lifecycle
\* One record per startSession invocation.  pc: where the async function is
\* ("getUserMedia", "connect", "resolved", "caught"); chan: the channel of
\* ai.live.connect ("none", "connecting", "open", "closing": closed by this
\* side or failed, close event not yet delivered, "closed"); capture: the
\* script processor of onopen is connected; blocks: blocks it has delivered;
\* stopped: history, stopSession has run since this invocation began;
\* errored: history, onerror has run for this channel; denied: history, the
\* getUserMedia of this invocation was rejected.
NewSession ==
    [pc |-> "getUserMedia", chan |-> "none", capture |-> FALSE, blocks |-> 0,
     stopped |-> FALSE, errored |-> FALSE, denied |-> FALSE]

\* lines 86-97: the click on Start Interview, up to the first await.  The
\* button is rendered only while !isActive, under the error overlay if any.
StartSession(cap) ==
    /\ ~isActive
    /\ error = NoError
    /\ Len(sess) < cap
    /\ error' = NoError
    /\ isActive' = TRUE
    /\ video' = VideoAfter(video, isActive, isActive')
    /\ sess' = Append(sess, NewSession)
    /\ h' = Did("startSession", NoMsg, Len(sess) + 1)
    /\ UNCHANGED <<isSpeaking, feedbacks, transcriptions, nextStartTime, sources,
                   sessionRef, buf, clock, nodes, pending, toolResponses, realtimeInput>>

\* line 97 resolves, lines 99-257 run: the connect is under way
MicGranted(k) ==
    /\ sess[k].pc = "getUserMedia"
    /\ sess' = [sess EXCEPT ![k].pc = "connect", ![k].chan = "connecting"]
    /\ h' = Did("micGranted", NoMsg, k)
    /\ UNCHANGED <<video, isActive, isSpeaking, error, feedbacks, transcriptions, nextStartTime,
                   sources, sessionRef, buf, clock, nodes, pending, toolResponses, realtimeInput>>

\* line 97 rejects, the message is set and the function goes on to the
\* connect all the same
MicDenied_Connects(k) ==
    /\ sess[k].pc = "getUserMedia"
    /\ sess' = [sess EXCEPT ![k].pc = "connect", ![k].chan = "connecting", ![k].denied = TRUE]
    /\ error' = DeviceError
    /\ isActive' = FALSE
    /\ video' = VideoAfter(video, isActive, isActive')
    /\ h' = Did("micDenied", NoMsg, k)
    /\ UNCHANGED <<isSpeaking, feedbacks, transcriptions, nextStartTime, sources,
                   sessionRef, buf, clock, nodes, pending, toolResponses, realtimeInput>>

\* line 97 rejects: lines 260-264
MicDenied(k) ==
    /\ sess[k].pc = "getUserMedia"
    /\ sess' = [sess EXCEPT ![k].pc = "caught", ![k].denied = TRUE]
    /\ error' = DeviceError
    /\ isActive' = FALSE
    /\ video' = VideoAfter(video, isActive, isActive')
    /\ h' = Did("micDenied", NoMsg, k)
    /\ UNCHANGED <<isSpeaking, feedbacks, transcriptions, nextStartTime, sources,
                   sessionRef, buf, clock, nodes, pending, toolResponses, realtimeInput>>

\* the channel opens: onopen (lines 159-174) attaches the capture callback,
\* the connect promise resolves and line 259 stores the session
ConnectResolved(k) ==
    /\ sess[k].pc = "connect"
    /\ sess[k].chan = "connecting"
    /\ sess' = [sess EXCEPT ![k].pc = "resolved", ![k].chan = "open", ![k].capture = TRUE]
    /\ sessionRef' = k
    /\ h' = Did("onopen", NoMsg, k)
    /\ UNCHANGED <<video, isActive, isSpeaking, error, feedbacks, transcriptions, nextStartTime,
                   sources, buf, clock, nodes, pending, toolResponses, realtimeInput>>

\* the connect promise rejects: lines 260-264
ConnectRejected(k) ==
    /\ sess[k].pc = "connect"
    /\ sess[k].chan = "connecting"
    /\ sess' = [sess EXCEPT ![k].pc = "caught", ![k].chan = "closed"]
    /\ error' = DeviceError
    /\ isActive' = FALSE
    /\ video' = VideoAfter(video, isActive, isActive')
    /\ h' = Did("connectRejected", NoMsg, k)
    /\ UNCHANGED <<isSpeaking, feedbacks, transcriptions, nextStartTime, sources,
                   sessionRef, buf, clock, nodes, pending, toolResponses, realtimeInput>>

\* lines 76-79: sessionRef.current.close?.() on the sessions record (and, as
\* history, every invocation so far is marked stopped)
CloseRef(ss, ref) ==
    [j \in 1..Len(ss) |->
        [ss[j] EXCEPT !.chan = IF j = ref /\ @ = "open" THEN "closing" ELSE @,
                      !.stopped = TRUE]]

\* stopSession without lines 81-82: the handles are neither stopped nor
\* forgotten
StopSession_KeepSources(ss) ==
    /\ sess' = ss
    /\ sessionRef' = 0
    /\ isActive' = FALSE
    /\ video' = VideoAfter(video, isActive, isActive')
    /\ isSpeaking' = FALSE
    /\ nodes' = nodes
    /\ sources' = sources

\* lines 75-84: stopSession; ss is the sessions record it leaves
StopSession(ss) ==
    /\ sess' = ss
    /\ sessionRef' = 0
    /\ isActive' = FALSE
    /\ video' = VideoAfter(video, isActive, isActive')
    /\ isSpeaking' = FALSE
    /\ nodes' = StopNodes(nodes, sources, clock)
    /\ sources' = {}

\* the click on End Session, rendered only while isActive
StopClick ==
    /\ isActive
    /\ error = NoError
    /\ StopSession(CloseRef(sess, sessionRef))
    /\ h' = [Did("stop", NoMsg, sessionRef) EXCEPT !.cancelAt = Track(h.nrecv, @)]
    /\ UNCHANGED <<error, feedbacks, transcriptions, nextStartTime, buf, clock,
                   pending, toolResponses, realtimeInput>>

\* onerror without line 250: the message is set, stopSession is not called
OnError_NoStop(k) ==
    /\ sess[k].chan = "open"
    /\ error' = CommError
    /\ sess' = [sess EXCEPT ![k].chan = "closing", ![k].errored = TRUE]
    /\ h' = Did("onerror", NoMsg, k)
    /\ UNCHANGED <<isActive, isSpeaking, sessionRef, nodes, sources>>
    /\ UNCHANGED <<video, feedbacks, transcriptions, nextStartTime, buf, clock,
                   pending, toolResponses, realtimeInput>>

\* lines 247-251: onerror of session k; the failed channel then closes
OnError(k) ==
    /\ sess[k].chan = "open"
    /\ error' = CommError
    /\ StopSession([CloseRef(sess, sessionRef) EXCEPT ![k].chan = "closing", ![k].errored = TRUE])
    /\ h' = [Did("onerror", NoMsg, k) EXCEPT !.cancelAt = Track(h.nrecv, @)]
    /\ UNCHANGED <<feedbacks, transcriptions, nextStartTime, buf, clock,
                   pending, toolResponses, realtimeInput>>

\* lines 252-255: onclose of session k, after the server closed the channel
\* (chan "open") or after this side closed it or it failed (chan "closing")
OnClose(k) ==
    /\ sess[k].chan \in {"open", "closing"}
    /\ sess' = [sess EXCEPT ![k].chan = "closed"]
    /\ isActive' = FALSE
    /\ video' = VideoAfter(video, isActive, isActive')
    /\ h' = Did("onclose", NoMsg, k)
    /\ UNCHANGED <<isSpeaking, error, feedbacks, transcriptions, nextStartTime, sources,
                   sessionRef, buf, clock, nodes, pending, toolResponses, realtimeInput>>

\* the Dismiss button of the error overlay: setError(null)
DismissError ==
    /\ error # NoError
    /\ error' = NoError
    /\ h' = Did("dismiss", NoMsg, 0)
    /\ UNCHANGED <<video, isActive, isSpeaking, feedbacks, transcriptions, nextStartTime, sources,
                   sessionRef, buf, sess, clock, nodes, pending, toolResponses, realtimeInput>>

\* onaudioprocess with the script processor connected at the connect call
\* (line 99) rather than in onopen
OnAudioProcess_BeforeOpen(k) ==
    /\ sess[k].capture \/ sess[k].chan = "connecting"
    /\ Len(realtimeInput) < MaxBlocks
    /\ sess' = [sess EXCEPT ![k].blocks = @ + 1]
    /\ realtimeInput' = Append(realtimeInput,
            [k |-> k, mimeType |-> "audio/pcm", block |-> sess[k].blocks + 1,
             chan |-> sess[k].chan, afterStop |-> sess[k].stopped, active |-> isActive])
    /\ h' = Did("onaudioprocess", NoMsg, k)
    /\ UNCHANGED <<video, isActive, isSpeaking, error, feedbacks, transcriptions, nextStartTime,
                   sources, sessionRef, buf, clock, nodes, pending, toolResponses>>

\* lines 164-170: onaudioprocess of session k's script processor, which
\* nothing ever disconnects; the chunk goes to session k's channel
OnAudioProcess(k) ==
    /\ sess[k].capture
    /\ Len(realtimeInput) < MaxBlocks
    /\ sess' = [sess EXCEPT ![k].blocks = @ + 1]
    /\ realtimeInput' = Append(realtimeInput,
            [k |-> k, mimeType |-> "audio/pcm", block |-> sess[k].blocks + 1,
             chan |-> sess[k].chan, afterStop |-> sess[k].stopped, active |-> isActive])
    /\ h' = Did("onaudioprocess", NoMsg, k)
    /\ UNCHANGED <<video, isActive, isSpeaking, error, feedbacks, transcriptions, nextStartTime,
                   sources, sessionRef, buf, clock, nodes, pending, toolResponses>>

\* lines 19-40 of VideoPreview: the getUserMedia of run e resolves; the
\* stream and the interval are assigned, whether or not the cleanup has run
CameraGranted(e) ==
    /\ video[e].camera = "pending"
    /\ video' = [video EXCEPT ![e].camera = "granted", ![e].stream = TRUE, ![e].interval = TRUE]
    /\ h' = Did("cameraGranted", NoMsg, e)
    /\ UNCHANGED <<isActive, isSpeaking, error, feedbacks, transcriptions, nextStartTime,
                   sources, sessionRef, buf, sess, clock, nodes, pending, toolResponses,
                   realtimeInput>>

\* lines 41-43 of VideoPreview: the getUserMedia of run e rejects, which is
\* logged and nothing else
CameraDenied(e) ==
    /\ video[e].camera = "pending"
    /\ video' = [video EXCEPT ![e].camera = "denied"]
    /\ h' = Did("cameraDenied", NoMsg, e)
    /\ UNCHANGED <<isActive, isSpeaking, error, feedbacks, transcriptions, nextStartTime,
                   sources, sessionRef, buf, sess, clock, nodes, pending, toolResponses,
                   realtimeInput>>

\* lines 267-273: handleFrame as created by a render in which isActive was
\* closureActive; the frame goes to the session sessionRef.current holds
HandleFrame(closureActive) ==
    IF sessionRef # 0 /\ closureActive
        THEN Append(realtimeInput,
                [k |-> sessionRef, mimeType |-> "image/jpeg", block |-> 0,
                 chan |-> sess[sessionRef].chan, afterStop |-> sess[sessionRef].stopped,
                 active |-> isActive])
        ELSE realtimeInput

\* lines 28-39 of VideoPreview: the interval of run e fires.  Its onFrame is
\* the handleFrame of the render that ran the effect, where isActive was
\* true (line 46).
FrameTick(e) ==
    /\ video[e].interval
    /\ Len(realtimeInput) < MaxBlocks
    /\ realtimeInput' = HandleFrame(TRUE)
    /\ h' = Did("frame", NoMsg, e)
    /\ UNCHANGED <<isActive, isSpeaking, error, feedbacks, transcriptions, nextStartTime,
                   sources, sessionRef, buf, sess, clock, nodes, video, pending, toolResponses>>

\* ------------------------------------------------------------------ inbound messages
\* onmessage of session k for a message with audio: lines 177-183, up to the
\* await of decodeAudioData; the rest of the handler waits in pending
OnMessageAudio(k, shape) ==
    /\ sess[k].chan = "open"
    /\ shape.audio > 0
    /\ h.nrecv < MaxMsgs
    /\ h.naudio < MaxAudio
    /\ h.ncalls + Len(shape.calls) <= MaxCalls
    /\ LET m == WithIds(shape, h.ncalls)
       IN /\ Commit(AudioArrive(St, clock))
          /\ pending' = pending \cup {[n |-> h.nrecv + 1, k |-> k, m |-> m]}
          /\ h' = [Arrived(Did("await", m, k), m) EXCEPT !.arrMax = Max(@, clock)]
    /\ UNCHANGED <<video, isActive, error, sessionRef, sess, clock, realtimeInput>>

\* onmessage of session k for a message without audio: lines 177-245 run
\* without suspending
OnMessageSync(k, shape) ==
    /\ sess[k].chan = "open"
    /\ shape.audio = 0
    /\ h.nrecv < MaxMsgs
    /\ h.ncalls + Len(shape.calls) <= MaxCalls
    /\ LET m == WithIds(shape, h.ncalls)
       IN /\ Commit(RestOfMessage(St, m, k, clock))
          /\ h' = [Arrived(Did("handled", m, k), m) EXCEPT
                      !.epoch = IF m.interrupted THEN @ + 1 ELSE @,
                      !.cancelAt = IF m.interrupted THEN Track(h.nrecv + 1, @) ELSE @]
    /\ UNCHANGED <<video, isActive, error, sessionRef, sess, clock, pending, realtimeInput>>

\* decodeAudioData resolves for a suspended handler: lines 184-245 run
DecodeDone(p) ==
    /\ p \in pending
    /\ Commit(RestOfMessage(AudioDecoded(St, p.m.audio, clock, h.arrMax, h.epoch),
                            p.m, p.k, clock))
    /\ pending' = pending \ {p}
    /\ h' = [Did("handled", p.m, p.k) EXCEPT
                !.arrMax = 0,
                !.epoch = IF p.m.interrupted THEN @ + 1 ELSE @,
                !.nodeMsg = Track(Append(@, p.n), @),
                !.stale = IF p.n <= h.cancelAt THEN Track(@ \cup {Len(nodes) + 1}, @) ELSE @,
                !.cancelAt = IF p.m.interrupted THEN Track(h.nrecv, @) ELSE @]
    /\ UNCHANGED <<video, isActive, error, sessionRef, sess, clock, realtimeInput>>

\* decodeAudioData rejects: the await throws out of onmessage, nothing of
\* lines 184-245 runs
DecodeFail(p) ==
    /\ p \in pending
    /\ pending' = pending \ {p}
    /\ h' = [Did("decodeFailed", p.m, p.k) EXCEPT !.failed = @ + 1]
    /\ UNCHANGED <<video, isActive, isSpeaking, error, feedbacks, transcriptions, nextStartTime,
                   sources, sessionRef, buf, sess, clock, nodes, toolResponses, realtimeInput>>

\* lines 187-190: onended of node i, delivered once its playback is over or
\* after stop()
OnEnded(i) ==
    /\ i \in 1..Len(nodes)
    /\ \/ nodes[i].state = "stopped"
       \/ nodes[i].state = "started" /\ clock >= nodes[i].began + nodes[i].dur
    /\ nodes' = [nodes EXCEPT ![i].state = "ended"]
    /\ sources' = sources \ {i}
    /\ isSpeaking' = IF sources \ {i} = {} THEN FALSE ELSE isSpeaking
    /\ h' = Did("onended", NoMsg, 0)
    /\ UNCHANGED <<video, isActive, error, feedbacks, transcriptions, nextStartTime, sessionRef,
                   buf, sess, clock, pending, toolResponses, realtimeInput>>

\* ctx.currentTime advances, once line 95 has created the output context
Tick ==
    /\ Len(sess) > 0
    /\ clock < MaxClock
    /\ clock' = clock + 1
    /\ h' = Did("tick", NoMsg, 0)
    /\ UNCHANGED <<video, isActive, isSpeaking, error, feedbacks, transcriptions, nextStartTime,
                   sources, sessionRef, buf, sess, nodes, pending, toolResponses, realtimeInput>>

\* ------------------------------------------------------------------ specifications
Sessions == 1..Len(sess)

Lifecycle(cap) ==
    \/ StartSession(cap)
    \/ \E k \in Sessions : MicGranted(k)
    \/ \E k \in Sessions : ConnectResolved(k)
    \/ StopClick
    \/ \E k \in Sessions : OnClose(k)

Failures ==
    \/ \E k \in Sessions : MicDenied(k)
    \/ \E k \in Sessions : ConnectRejected(k)
    \/ \E k \in Sessions : OnError(k)
    \/ DismissError

Video ==
    \/ \E e \in 1..Len(video) : CameraGranted(e)
    \/ \E e \in 1..Len(video) : CameraDenied(e)
    \/ \E e \in 1..Len(video) : FrameTick(e)

Inbound(msgs) ==
    \/ \E k \in Sessions, m \in msgs : OnMessageAudio(k, m)
    \/ \E k \in Sessions, m \in msgs : OnMessageSync(k, m)
    \/ \E p \in pending : DecodeDone(p)
    \/ \E p \in pending : DecodeFail(p)
    \/ \E i \in 1..Len(nodes) : OnEnded(i)

\* the whole program
Next ==
    \/ Lifecycle(MaxSessions)
    \/ Failures
    \/ Inbound(AllMsgs)
    \/ \E k \in Sessions : OnAudioProcess(k)
    \/ Video
    \/ Tick
Spec == Init /\ [][Next]_vars

\* playback in one session: audio and interruption messages against the clock
NextPlayback ==
    \/ Lifecycle(1)
    \/ Inbound(PlaybackMsgs)
    \/ Tick
SpecPlayback == Init /\ [][NextPlayback]_vars

\* the same, with the history of cancellations and of node origins kept
SpecPlaybackOrder == InitTracked /\ [][NextPlayback]_vars

\* the transcript in one session: transcription and turn-complete messages,
\* with or without audio
NextTranscript ==
    \/ Lifecycle(1)
    \/ Inbound(TextMsgs)
SpecTranscript == Init /\ [][NextTranscript]_vars

\* tool calls in one session, with or without audio
NextTools ==
    \/ Lifecycle(1)
    \/ Inbound(ToolMsgs)
SpecTools == Init /\ [][NextTools]_vars

\* lifecycle: sessions, their channels and the microphone capture
NextLifecycle ==
    \/ Lifecycle(MaxSessions)
    \/ Failures
    \/ \E k \in Sessions : OnAudioProcess(k)
SpecLifecycle == Init /\ [][NextLifecycle]_vars

\* playback in one session with the failures of the channel and of the
\* devices, at one clock value
NextError ==
    \/ Lifecycle(1)
    \/ Failures
    \/ Inbound(PlaybackMsgs)
SpecError == Init /\ [][NextError]_vars

\* the video preview and its frames across sessions
NextVideo ==
    \/ Lifecycle(MaxSessions)
    \/ Video
SpecVideo == Init /\ [][NextVideo]_vars

\* sessions one after another on the same App, with transcription and audio
\* messages, at one clock value
NextRestart ==
    \/ Lifecycle(MaxSessions)
    \/ Inbound(TextMsgs)
SpecRestart == Init /\ [][NextRestart]_vars

\* ------------------------------------------------------------------ properties: playback
NodeIds == 1..Len(nodes)
EndOf(n) == n.when + n.dur

\* two nodes are audible at the same instant, now or earlier
Overlap(a, b) ==
    /\ Max(PlayFrom(a), PlayFrom(b)) < Min(PlayTo(a), PlayTo(b))
    /\ Max(PlayFrom(a), PlayFrom(b)) <= clock

\* C1, as stated: of two handles created one after the other with no
\* interruption processed in between, the second is scheduled exactly where
\* the first ends, whatever the arrival clock values.
C1_Contiguous ==
    \A i \in NodeIds : i + 1 \in NodeIds /\ nodes[i + 1].epoch = nodes[i].epoch
        => nodes[i + 1].when = EndOf(nodes[i])

\* C1, amended: the second is scheduled where the first ends, or at the
\* latest clock value at which an audio chunk arrived since the first was
\* created if that is later.
C1_ContiguousOrArrival ==
    \A i \in NodeIds : i + 1 \in NodeIds /\ nodes[i + 1].epoch = nodes[i].epoch
        => nodes[i + 1].when = Max(EndOf(nodes[i]), nodes[i + 1].arr)

\* C1 witness: two consecutive handles, the second from a chunk that arrived
\* after the first had ended.
C1_Witness ==
    \E i \in NodeIds : /\ i + 1 \in NodeIds
                       /\ nodes[i + 1].epoch = nodes[i].epoch
                       /\ nodes[i + 1].arr > EndOf(nodes[i])

\* C2: the play windows of any two handles never overlap.
C2_NoOverlap ==
    \A i \in NodeIds, j \in NodeIds : i # j => ~Overlap(nodes[i], nodes[j])

\* C3: once the interruption block of a message has run, activeHandles is
\* empty, the speaking indicator is false and nextStartTime is 0.
C3_InterruptResets ==
    (h.last = "handled" /\ h.msg.interrupted)
        => (sources = {} /\ ~isSpeaking /\ nextStartTime = 0)

\* C3 witness: an interruption has just stopped two handles at once.
C3_Witness ==
    /\ h.last = "handled"
    /\ h.msg.interrupted
    /\ Cardinality({i \in NodeIds : nodes[i].state = "stopped" /\ nodes[i].stopAt = clock}) >= 2
    /\ clock > 0

\* C4: the speaking indicator is true exactly when activeHandles is
\* non-empty.  (Stated for the states in which no chunk is being decoded,
\* where the indicator is already true by design, and no decode has failed.)
C4_SpeakingIffActive ==
    (pending = {} /\ h.failed = 0) => (isSpeaking <=> (sources # {}))

\* C10: after an inbound close the channel is closed, activeHandles is
\* empty, the speaking indicator is false and the session is not active.
C10_CloseReleases ==
    h.last = "onclose"
        => (sess[h.k].chan = "closed" /\ sources = {} /\ ~isSpeaking /\ ~isActive)

\* ------------------------------------------------------------------ properties: transcript
\* the log without its timestamps
Shown(log) == [i \in 1..Len(log) |-> [role |-> log[i].role, text |-> log[i].text]]

\* C7: a turn-complete message appends one entry per non-empty buffer, user
\* first, with the buffer's content as text, and empties both buffers; the
\* log never holds an entry with empty text.
C7_FlushTurn ==
    /\ [][(h'.last = "handled" /\ h'.msg.turnComplete) =>
            LET u == buf.user \o h'.msg.inT
                m == buf.model \o h'.msg.outT
            IN /\ buf' = EmptyBuf
               /\ u = <<>> /\ m = <<>> => transcriptions' = transcriptions
               /\ u # <<>> /\ m = <<>> =>
                    transcriptions' = Append(transcriptions, [role |-> "user", text |-> u, timestamp |-> clock])
               /\ u = <<>> /\ m # <<>> =>
                    transcriptions' = Append(transcriptions, [role |-> "model", text |-> m, timestamp |-> clock])
               /\ u # <<>> /\ m # <<>> =>
                    transcriptions' = transcriptions \o
                        << [role |-> "user", text |-> u, timestamp |-> clock],
                           [role |-> "model", text |-> m, timestamp |-> clock] >>]_vars
    /\ [](\A i \in 1..Len(transcriptions) : transcriptions[i].text # <<>>)

\* C7 witness: a turn-complete message has just flushed both buffers.
C7_Witness ==
    /\ h.last = "handled"
    /\ h.msg.turnComplete
    /\ buf = EmptyBuf
    /\ Len(transcriptions) >= 2
    /\ transcriptions[Len(transcriptions) - 1].role = "user"
    /\ transcriptions[Len(transcriptions)].role = "model"

\* C8: messages take effect in arrival order: once every handler has
\* finished (and no decode has failed), the log and the buffers are what
\* handling the messages one by one in arrival order gives.
C8_ArrivalOrder ==
    (pending = {} /\ h.failed = 0)
        => (Shown(transcriptions) = h.arrLog /\ buf = h.arrBuf)

\* ------------------------------------------------------------------ properties: tool calls
Acks(id) == {i \in 1..Len(toolResponses) : toolResponses[i].id = id}
Suspended(id) == \E p \in pending : \E j \in 1..Len(p.m.calls) : p.m.calls[j].id = id

\* C5: every function call received gets exactly one acknowledgment, once
\* the handler of its message has finished.
C5_OneAckPerCall ==
    \A j \in 1..Len(h.calls) :
        ~Suspended(h.calls[j].id) => Cardinality(Acks(h.calls[j].id)) = 1

Malformed(fc) ==
    /\ fc.name = "provideFeedback"
    /\ \/ fc.args.category = Undefined
       \/ fc.args.message = Undefined
       \/ fc.args.sentiment = Undefined

\* C6: a provideFeedback call that lacks a required field is acknowledged
\* and leaves the feedback history as it was.
C6_MalformedNotRecorded ==
    [][(h'.last = "handled" /\ h'.msg.calls # <<>>
            /\ \A j \in 1..Len(h'.msg.calls) : Malformed(h'.msg.calls[j]))
        => /\ feedbacks' = feedbacks
           /\ \A j \in 1..Len(h'.msg.calls) :
                \E i \in 1..Len(toolResponses') : toolResponses'[i].id = h'.msg.calls[j].id]_vars

\* ------------------------------------------------------------------ properties: lifecycle
\* C9: no microphone chunk is handed to a channel by the capture callback of
\* a session once stopSession has run.
C9_NoChunkAfterStop ==
    \A i \in 1..Len(realtimeInput) :
        realtimeInput[i].mimeType = "audio/pcm" => ~realtimeInput[i].afterStop

\* ------------------------------------------------------------------ properties: failures
\* C11: once onerror has run for a channel, no handle is held or playing,
\* the speaking indicator is false, the channel is closed or closing, the
\* session is not active and the communication error message is set.
C11_ErrorStops ==
    h.last = "onerror"
        => /\ sources = {}
           /\ \A i \in NodeIds : nodes[i].state # "started"
           /\ ~isSpeaking
           /\ sess[h.k].chan \in {"closing", "closed"}
           /\ sessionRef = 0
           /\ ~isActive
           /\ error = CommError

\* C11 witness: onerror has just stopped a handle that was playing (nothing
\* else had stopped one: no interruption has been processed).
C11_Witness ==
    /\ h.last = "onerror"
    /\ h.epoch = 0
    /\ \E i \in NodeIds : nodes[i].state = "stopped"
    /\ error = CommError

Errored == \E k \in Sessions : sess[k].errored

\* C12: once onerror has run for a channel of this App instance, no step
\* takes the session from not active to active (Connecting or Active) again.
C12_ErroredTerminal ==
    [][Errored => (isActive' => isActive)]_vars

\* C12, amended: while an error message is shown the session is not active
\* and a channel that had an error is never open again; startSession runs
\* only with no message shown, and then adds a new session with its own
\* channel and leaves the earlier ones as they are.
C12_RestartAfterDismiss ==
    /\ [](error # NoError => ~isActive)
    /\ [](\A k \in Sessions : sess[k].errored => sess[k].chan \in {"closing", "closed"})
    /\ [][h'.last = "startSession"
            => (error = NoError /\ ~isActive /\ isActive' /\ sess' = Append(sess, NewSession))]_vars

\* C12 witness: after an error on one channel, a later startSession has
\* reached an open channel and the session is active.
C12_Witness ==
    \E k \in Sessions, j \in Sessions :
        /\ sess[k].errored
        /\ k < j
        /\ sess[j].chan = "open"
        /\ sessionRef = j
        /\ isActive
        /\ error = NoError

\* C13: at most one channel is open (its capture callback and its message
\* handlers attached) at any time.
C13_OneLive ==
    Cardinality({k \in Sessions : sess[k].chan = "open" /\ sess[k].capture}) <= 1

\* C14: an invocation of startSession whose getUserMedia was rejected never
\* has a channel (no connect is attempted) nor a capture callback, and no
\* chunk of it is ever sent; right after the rejection the session is not
\* active and the device error message is set.
C14_MicFailure ==
    /\ \A k \in Sessions : sess[k].denied =>
            /\ sess[k].pc = "caught"
            /\ sess[k].chan = "none"
            /\ ~sess[k].capture
            /\ sess[k].blocks = 0
            /\ \A i \in 1..Len(realtimeInput) : realtimeInput[i].k # k
    /\ h.last = "micDenied" => (~isActive /\ error = DeviceError)

\* C14 witness: the getUserMedia of the second invocation has just been
\* rejected, after a first session that sent a chunk.
C14_Witness ==
    /\ h.last = "micDenied"
    /\ h.k = 2
    /\ sess[2].denied
    /\ realtimeInput # <<>>

\* ------------------------------------------------------------------ properties: decoding
\* C15: after the decode of a chunk has failed, nextStartTime and
\* activeHandles are what they were before the chunk arrived.  (Stated for
\* the first message of a behaviour, before which nextStartTime is 0 and no
\* handle exists.)
C15_FailedDecodeLeavesState ==
    (h.last = "decodeFailed" /\ h.nrecv = 1)
        => (nextStartTime = 0 /\ sources = {} /\ nodes = <<>>)

\* ------------------------------------------------------------------ properties: video
\* C16: every video frame handed to a channel was handed over while the
\* session was active and to a channel that was open.
C16_FramesOnlyWhileActive ==
    \A i \in 1..Len(realtimeInput) :
        realtimeInput[i].mimeType = "image/jpeg"
            => (realtimeInput[i].active /\ realtimeInput[i].chan = "open")

\* C23: when the camera request of a start fails, an error message is set
\* and the session is not active; the session of that start (run e of the
\* effect belongs to invocation e of startSession) never has an open
\* channel nor a capture callback.
C23_CameraFailureFatal ==
    /\ h.last = "cameraDenied" => (error # NoError /\ ~isActive)
    /\ \A e \in 1..Len(video) :
            video[e].camera = "denied" => (sess[e].chan # "open" /\ ~sess[e].capture)

\* ------------------------------------------------------------------ properties: capture
\* the microphone chunks handed to session k's channel, in order
AudioOf(k) ==
    LET Mine(r) == r.k = k /\ r.mimeType = "audio/pcm"
    IN SelectSeq(realtimeInput, Mine)

\* C17: the microphone chunks of a session reach its channel in capture
\* order, each captured block exactly once, and none before the channel is
\* open.
C17_CaptureOrder ==
    \A k \in Sessions :
        /\ Len(AudioOf(k)) = sess[k].blocks
        /\ \A i \in 1..Len(AudioOf(k)) :
                /\ AudioOf(k)[i].block = i
                /\ AudioOf(k)[i].chan \notin {"none", "connecting"}

\* C17 witness: two blocks of one session have been sent.
C17_Witness ==
    \E k \in Sessions : Len(AudioOf(k)) >= 2 /\ AudioOf(k)[2].block = 2

\* ------------------------------------------------------------------ properties: cancellation and order
\* History kept in h when tracking: nodeMsg[i] is the arrival number of the message whose
\* chunk node i plays; cancelAt is the number of messages that had arrived
\* when stopSession or an interruption block last ran; stale holds the nodes
\* created from a message that had arrived by then.

\* C18: no handle of a chunk whose message arrived before the last stop or
\* interruption is held or playing after it.
C18_CancelComplete ==
    h.track => \A i \in NodeIds : i \in h.stale => (i \notin sources /\ nodes[i].state # "started")

\* C19: with no interruption processed, a chunk whose message arrived
\* earlier ends before a chunk whose message arrived later starts.
C19_ArrivalOrderPlayback ==
    (h.track /\ h.epoch = 0) =>
        \A i \in NodeIds, j \in NodeIds :
            h.nodeMsg[i] < h.nodeMsg[j] => EndOf(nodes[i]) <= nodes[j].when

\* C20: once no decode is in progress and every handle created has had its
\* end-of-playback callback, so that nothing is left to run unless a new
\* message arrives, activeHandles is empty and the speaking indicator is
\* false.
C20_QuiescentSilent ==
    (pending = {} /\ \A i \in NodeIds : nodes[i].state = "ended")
        => (sources = {} /\ ~isSpeaking)

\* ------------------------------------------------------------------ properties: restart
\* C21: when startSession runs after a stopSession, both transcription
\* buffers are empty and nextStartTime is 0.
C21_ResetOnRestart ==
    (h.last = "startSession" /\ h.k > 1 /\ sess[h.k - 1].stopped)
        => (buf = EmptyBuf /\ nextStartTime = 0)

\* ------------------------------------------------------------------ properties: acknowledgments and feedback history
\* C22: every acknowledgment sent carries the id and the name of a function
\* call received and the result "feedback_received", and acknowledgments
\* are sent in the order in which their calls were received (the server
\* numbers the calls in that order).
C22_AcksInCallOrder ==
    /\ \A i \in 1..Len(toolResponses) :
            /\ toolResponses[i].result = "feedback_received"
            /\ \E j \in 1..Len(h.calls) :
                    /\ h.calls[j].id = toolResponses[i].id
                    /\ h.calls[j].name = toolResponses[i].name
    /\ \A i \in 1..Len(toolResponses), j \in 1..Len(toolResponses) :
            i < j => toolResponses[i].id < toolResponses[j].id

\* the provideFeedback calls received so far that have all three fields
FullCalls ==
    {j \in 1..Len(h.calls) : h.calls[j].name = "provideFeedback" /\ ~Malformed(h.calls[j])}

\* C24: the feedback history holds its entries in the order they were added
\* (newest first, none removed or moved), each entry carries the fields of a
\* provideFeedback call received with all three fields, and once every
\* handler has finished (no decode having failed) its length is the number
\* of such calls received.
C24_FeedbackOnlyGrows ==
    /\ \A i \in 1..Len(feedbacks) :
            /\ feedbacks[i].id = Len(feedbacks) - i + 1
            /\ \E j \in FullCalls :
                    /\ feedbacks[i].category = h.calls[j].args.category
                    /\ feedbacks[i].message = h.calls[j].args.message
                    /\ feedbacks[i].sentiment = h.calls[j].args.sentiment
    /\ (pending = {} /\ h.failed = 0) => Len(feedbacks) = Cardinality(FullCalls)
====
